---------------------------- MODULE Spec2Model ----------------------------
(***************************************************************************)
(* Bunsetu (phrase chunk) recognition of ginza/bunsetu_recognizer.py.      *)
(*                                                                         *)
(* A document is n tokens, indexed 0..n-1 as in the source.  Every token   *)
(* has a governor index (Token.head.i), a dependency label (Token.dep_)    *)
(* and a part of speech (Token.pos_).  BunsetuRecognizer.__call__ is       *)
(* modelled pass by pass; the while loop of the recovery pass and the for  *)
(* loop of the boundary pass are modelled iteration by iteration.          *)
(***************************************************************************)
EXTENDS Integers, Sequences, FiniteSets, TLC

VARIABLES
    n,              \* len(doc)
    gov,            \* gov[t] = doc[t].head.i
    dep,            \* dep[t] = doc[t].dep_ (rewritten in place by __call__)
    pos,            \* pos[t] = doc[t].pos_
    ents,           \* doc.ents, ascending non-overlapping spans [start, end)
    user_data,      \* doc.user_data
    heads,          \* local list `heads` of __call__
    pc,             \* position in the code
    i,              \* index of the `for t in doc` loop of the recovery pass
    cur,            \* t.i inside the while loop (t is re-bound to t.head)
    bunsetu_heads,  \* local tuple `bunsetu_heads` (line 154)
    hi,             \* position of the boundary loop in bunsetu_heads (1-based)
    bunsetu_bi,     \* local list `bunsetu_bi`
    next_begin,     \* local `next_begin`
    dep0,           \* history: the labels the document was built with
    runs,           \* history: the heads list after each run of the marking pass
    asteps,         \* history: iterations of the while loop in the current ascent
    begins,         \* history: the positions at which "B" was written, in order
    window,         \* argument `tokens` of append_bunsetu_head_dep_suffix
    suffix,         \* argument `suffix` of append_bunsetu_head_dep_suffix
    phrase          \* argument and result of bunsetu_phrase_span

vars == <<n, gov, dep, pos, ents, user_data, heads, pc, i, cur, bunsetu_heads,
          hi, bunsetu_bi, next_begin, dep0, runs, asteps, begins, window,
          suffix, phrase>>

(***************************************************************************)
(* Bounds.                                                                 *)
(***************************************************************************)
MaxLen == 3

(***************************************************************************)
(* Labels.  A dependency label is a base string followed by some number    *)
(* of copies of BUNSETU_HEAD_SUFFIX: [base |-> "nmod", suf |-> 1] is the   *)
(* string "nmod_bunsetu".  No base string ends with the suffix.            *)
(***************************************************************************)
Label(b, k) == [base |-> b, suf |-> k]

\* t.dep_ == "ROOT"
IsRootLabel(l) == l.base = "ROOT" /\ l.suf = 0

\* t.dep_.endswith(BUNSETU_HEAD_SUFFIX)
EndsWithSuffix(l) == l.suf > 0

\* t.dep_[:-len(BUNSETU_HEAD_SUFFIX)]
StripSuffix(l) == [l EXCEPT !.suf = l.suf - 1]

Tokens == 0 .. (n - 1)

(***************************************************************************)
(* The dependency tree as spaCy exposes it.                                *)
(***************************************************************************)
RECURSIVE Ancestor(_, _, _)
\* the token reached from t by k governor steps
Ancestor(g, t, k) == IF k = 0 THEN t ELSE Ancestor(g, g[t], k - 1)

\* a forest: every governor chain ends in a token that governs itself
WellFormed(g, len) ==
    \A t \in 0 .. (len - 1) : LET r == Ancestor(g, t, len) IN g[r] = r

\* number of governor steps from t to the root of its sentence
Depth(t) == CHOOSE k \in 0 .. n :
    /\ gov[Ancestor(gov, t, k)] = Ancestor(gov, t, k)
    /\ \A j \in 0 .. (k - 1) : gov[Ancestor(gov, t, j)] # Ancestor(gov, t, j)

\* x is t or an ancestor of t
Dominates(x, t) == \E k \in 0 .. n : Ancestor(gov, t, k) = x

SetMax(S) == CHOOSE x \in S : \A y \in S : y <= x
SetMin(S) == CHOOSE x \in S : \A y \in S : x <= y

\* faulty variant: the leftmost token of the subtree of x (Token.left_edge.i)
LeftEdge(x) == SetMin({t \in Tokens : Dominates(x, t)})

\* Token.right_edge.i: the rightmost token of the subtree of x
RightEdge(x) == SetMax({t \in Tokens : Dominates(x, t)})

RECURSIVE Ascending(_, _)
\* the members of S from index k on, in ascending order
Ascending(S, k) ==
    IF k >= n THEN <<>>
    ELSE (IF k \in S THEN <<k>> ELSE <<>>) \o Ascending(S, k + 1)

\* [sub.i for sub in t.rights]: the direct dependents after t, ascending
Rights(t) == Ascending({c \in Tokens : c > t /\ gov[c] = t}, 0)

\* [c.i for c in t.children]: the direct dependents of t, ascending
Children(t) == Ascending({c \in Tokens : c # t /\ gov[c] = t}, 0)

\* ent.root.i: the token of the span nearest to the root of its sentence,
\* the first one in case of ties
EntRoot(ent) ==
    LET span == ent.start .. (ent.end - 1)
        best == SetMin({Depth(t) : t \in span})
    IN  SetMin({t \in span : Depth(t) = best})

(***************************************************************************)
(* Values held in doc.user_data["bunsetu_heads"].                          *)
(***************************************************************************)
Unset == [kind |-> "unset", name |-> "", items |-> <<>>]
TupleValue(s) == [kind |-> "tuple", name |-> "", items |-> s]
FunctionValue(f) == [kind |-> "function", name |-> f, items |-> <<>>]

\* tuple(idx for idx, is_head in enumerate(heads) if is_head)
HeadTuple(hs) == Ascending({t \in Tokens : hs[t]}, 0)

(***************************************************************************)
(* BunsetuRecognizer.__call__                                              *)
(***************************************************************************)

\* faulty variant: the marking pass leaves the labels as they are
HeadMarkerNoStrip ==
    /\ pc = "mark"
    /\ LET marked == [t \in Tokens |->
                        IsRootLabel(dep[t]) \/ EndsWithSuffix(dep[t])]
       IN  /\ heads' = marked
           /\ runs' = Append(runs, marked)
    /\ i' = 0
    /\ pc' = "recover"
    /\ UNCHANGED <<n, gov, dep, pos, ents, user_data, cur, bunsetu_heads, hi,
                   bunsetu_bi, next_begin, dep0, asteps, begins, window,
                   suffix, phrase>>

\* lines 109-115: the marking pass
HeadMarker ==
    /\ pc = "mark"
    /\ LET marked == [t \in Tokens |->
                        IsRootLabel(dep[t]) \/ EndsWithSuffix(dep[t])]
       IN  /\ heads' = marked
           /\ runs' = Append(runs, marked)
    /\ dep' = [t \in Tokens |->
                 IF ~IsRootLabel(dep[t]) /\ EndsWithSuffix(dep[t])
                 THEN StripSuffix(dep[t]) ELSE dep[t]]
    /\ i' = 0
    /\ pc' = "recover"
    /\ UNCHANGED <<n, gov, pos, ents, user_data, cur, bunsetu_heads, hi,
                   bunsetu_bi, next_begin, dep0, asteps, begins, window,
                   suffix, phrase>>

\* lines 116-117: a token that is not a head is passed over
RecoverSkip ==
    /\ pc = "recover"
    /\ i < n
    /\ ~heads[i]
    /\ i' = i + 1
    /\ UNCHANGED <<n, gov, dep, pos, ents, user_data, heads, pc, cur,
                   bunsetu_heads, hi, bunsetu_bi, next_begin, dep0, runs,
                   asteps, begins, window, suffix, phrase>>

\* lines 116-117: the ascent starts from a token that is a head
RecoverEnter ==
    /\ pc = "recover"
    /\ i < n
    /\ heads[i]
    /\ cur' = i
    /\ asteps' = 0
    /\ pc' = "ascent"
    /\ UNCHANGED <<n, gov, dep, pos, ents, user_data, heads, i,
                   bunsetu_heads, hi, bunsetu_bi, next_begin, dep0, runs,
                   begins, window, suffix, phrase>>

\* faulty variant: the ascent follows the governor in either direction
AscentGuardAnyDirection == gov[cur] # cur /\ ~heads[gov[cur]]

\* the condition of the while loop at line 118
AscentGuard == gov[cur] < cur /\ ~heads[gov[cur]]

\* faulty variant: an iteration moves to the governor without marking it
AscentStepNoMark ==
    /\ pc = "ascent"
    /\ gov[cur] < cur /\ ~heads[gov[cur]]
    /\ cur' = gov[cur]
    /\ asteps' = IF asteps < n THEN asteps + 1 ELSE asteps
    /\ UNCHANGED <<n, gov, dep, pos, ents, user_data, heads, pc, i,
                   bunsetu_heads, hi, bunsetu_bi, next_begin, dep0, runs,
                   begins, window, suffix, phrase>>

\* lines 118-123: one iteration of the while loop
AscentStep ==
    /\ pc = "ascent"
    /\ AscentGuard
    /\ heads' = [heads EXCEPT ![gov[cur]] = (pos[gov[cur]] \notin {"PUNCT"})]
    /\ cur' = gov[cur]
    /\ asteps' = IF asteps < n THEN asteps + 1 ELSE asteps
    /\ UNCHANGED <<n, gov, dep, pos, ents, user_data, pc, i, bunsetu_heads,
                   hi, bunsetu_bi, next_begin, dep0, runs, begins, window,
                   suffix, phrase>>

\* faulty variant: the loop is left without marking the governor of the last token
AscentCloseNoMark ==
    /\ pc = "ascent"
    /\ ~(gov[cur] < cur /\ ~heads[gov[cur]])
    /\ i' = i + 1
    /\ pc' = "recover"
    /\ UNCHANGED <<n, gov, dep, pos, ents, user_data, heads, cur,
                   bunsetu_heads, hi, bunsetu_bi, next_begin, dep0, runs,
                   asteps, begins, window, suffix, phrase>>

\* line 124: the loop is left and the governor of the last token is marked
AscentClose ==
    /\ pc = "ascent"
    /\ ~AscentGuard
    /\ heads' = [heads EXCEPT ![gov[cur]] = TRUE]
    /\ i' = i + 1
    /\ pc' = "recover"
    /\ UNCHANGED <<n, gov, dep, pos, ents, user_data, cur, bunsetu_heads,
                   hi, bunsetu_bi, next_begin, dep0, runs, asteps, begins,
                   window, suffix, phrase>>

\* the end of the for loop of line 116
RecoverExit ==
    /\ pc = "recover"
    /\ i = n
    /\ pc' = "ents"
    /\ UNCHANGED <<n, gov, dep, pos, ents, user_data, heads, i, cur,
                   bunsetu_heads, hi, bunsetu_bi, next_begin, dep0, runs,
                   asteps, begins, window, suffix, phrase>>


(***************************************************************************)
(* doc.ents: every ascending list of non-empty, pairwise disjoint spans.   *)
(***************************************************************************)
Spans == {sp \in [start : 0 .. n, end : 0 .. n] : sp.start < sp.end}

Disjoint(a, b) == a.end <= b.start \/ b.end <= a.start

RECURSIVE SpanSeq(_)
\* the spans of S in document order
SpanSeq(S) ==
    IF S = {} THEN <<>>
    ELSE LET first == CHOOSE a \in S : \A b \in S : a.start <= b.start
         IN  <<first>> \o SpanSeq(S \ {first})

EntLists ==
    {SpanSeq(S) : S \in {T \in SUBSET Spans :
                            \A a, b \in T : a = b \/ Disjoint(a, b)}}

SeqRange(s) == {s[k] : k \in DOMAIN s}

(***************************************************************************)
(* Line 130 compares t.i, an int, with `head`, a Token.  The indices are   *)
(* never compared: int.__ne__ declines, and the result is decided by the   *)
(* Token type of the installed spaCy build, for every pair alike: the two  *)
(* are unequal, or they are equal, or the comparison raises TypeError.     *)
(***************************************************************************)
CompareOutcomes == {"unequal", "equal", "raise"}

\* t.i != head
IntNeToken(k, tok, how) == how = "unequal"

\* lines 126-131: the list `heads` after the loop over doc.ents
ClearInsideEnts(hs, es, how) ==
    [t \in Tokens |->
        IF \E e \in SeqRange(es) :
              /\ e.start <= t /\ t < e.end
              /\ IntNeToken(t, EntRoot(e), how)
        THEN FALSE ELSE hs[t]]

\* lines 126-157: the entity pass, then the set-up of the boundary pass
EntityConflictResolver ==
    /\ pc = "ents"
    /\ \E es \in EntLists, how \in CompareOutcomes :
         /\ ents' = es
         /\ IF es # <<>> /\ how = "raise"
            THEN /\ pc' = "raised"
                 /\ UNCHANGED <<heads, bunsetu_heads, hi, bunsetu_bi,
                                next_begin>>
            ELSE /\ heads' = ClearInsideEnts(heads, es, how)
                 /\ bunsetu_heads' = HeadTuple(heads')
                 /\ bunsetu_bi' = [t \in Tokens |-> "I"]
                 /\ next_begin' = 0
                 /\ hi' = 1
                 /\ pc' = "label"
    /\ UNCHANGED <<n, gov, dep, pos, user_data, i, cur, dep0, runs, asteps,
                   begins, window, suffix, phrase>>

RECURSIVE ScanRights(_, _, _)
\* lines 162-167: the value of right.i after the loop over t.rights
ScanRights(hs, subs, right) ==
    IF subs = <<>> THEN right
    ELSE IF hs[Head(subs)] THEN RightEdge(right)
    ELSE ScanRights(hs, Tail(subs), Head(subs))

\* lines 162-168: next_begin after the head head_i
NextBegin(hs, head_i) == ScanRights(hs, Rights(head_i), head_i) + 1

\* lines 158-168: one iteration of the loop over bunsetu_heads
LabelHead ==
    /\ pc = "label"
    /\ hi <= Len(bunsetu_heads)
    /\ IF next_begin < n
       THEN /\ bunsetu_bi' = [bunsetu_bi EXCEPT ![next_begin] = "B"]
            /\ begins' = Append(begins, next_begin)
       ELSE UNCHANGED <<bunsetu_bi, begins>>
    /\ next_begin' = NextBegin(heads, bunsetu_heads[hi])
    /\ hi' = hi + 1
    /\ UNCHANGED <<n, gov, dep, pos, ents, user_data, heads, pc, i, cur,
                   bunsetu_heads, dep0, runs, asteps, window, suffix,
                   phrase>>

\* lines 170-173: the results are stored in doc.user_data
Publish ==
    /\ pc = "label"
    /\ hi > Len(bunsetu_heads)
    /\ user_data' = [bunsetu_heads |-> FunctionValue("bunsetu_head_list"),
                     bunsetu_bi_labels |-> bunsetu_bi]
    /\ pc' = "done"
    /\ UNCHANGED <<n, gov, dep, pos, ents, heads, i, cur, bunsetu_heads, hi,
                   bunsetu_bi, next_begin, dep0, runs, asteps, begins,
                   window, suffix, phrase>>

(***************************************************************************)
(* Documents.                                                              *)
(***************************************************************************)
\* the labels a parsed token can carry: the token that governs itself is
\* the ROOT of its sentence, any other one may carry the reserved suffix
ParsedLabels(g, t) ==
    IF g[t] = t THEN {Label("ROOT", 0)}
    ELSE {Label("nmod", 0), Label("nmod", 1)}

\* the parsed documents of len tokens
ParsedDocs(len) ==
    {d \in [gov : {g \in [0 .. (len - 1) -> 0 .. (len - 1)] : WellFormed(g, len)},
            dep : [0 .. (len - 1) -> {Label("ROOT", 0), Label("nmod", 0),
                                      Label("nmod", 1)}],
            pos : [0 .. (len - 1) -> {"NOUN", "PUNCT"}]] :
        \A t \in 0 .. (len - 1) : d.dep[t] \in ParsedLabels(d.gov, t)}

NoUserData == [bunsetu_heads |-> Unset, bunsetu_bi_labels |-> <<>>]
NoPhrase == [status |-> "none", head |-> 0, relations |-> {},
             tokens |-> {}, begin |-> 0, end |-> 0, label |-> "None"]
NoWindow == [start |-> 0, end |-> 0]

\* the state of a call that has not started
CallIdle ==
    /\ heads = <<>>
    /\ i = 0
    /\ cur = 0
    /\ bunsetu_heads = <<>>
    /\ hi = 0
    /\ bunsetu_bi = <<>>
    /\ next_begin = 0
    /\ runs = <<>>
    /\ asteps = 0
    /\ begins = <<>>

\* a Python list as a function on 0 .. len-1
FromSeq(s) == [t \in 0 .. (Len(s) - 1) |-> s[t + 1]]

Plain == Label("nmod", 0)
Marked == Label("nmod", 1)
Root == Label("ROOT", 0)

\* five-token sentences: the two trees of the documented scenarios (the
\* second one has the reserved suffix on token 2), a tree whose recovery
\* closes on a governor to the right, and a non-projective tree
LongDocs ==
    {[gov |-> FromSeq(<<1, 1, 3, 1, 1>>),
      dep |-> FromSeq(<<Plain, Root, Plain, Plain, Plain>>),
      pos |-> FromSeq(<<"NOUN", "VERB", "NOUN", "NOUN", "AUX">>)],
     [gov |-> FromSeq(<<1, 1, 3, 1, 1>>),
      dep |-> FromSeq(<<Plain, Root, Marked, Plain, Plain>>),
      pos |-> FromSeq(<<"NOUN", "VERB", "NOUN", "NOUN", "AUX">>)],
     [gov |-> FromSeq(<<2, 4, 1, 0, 4>>),
      dep |-> FromSeq(<<Plain, Plain, Plain, Marked, Root>>),
      pos |-> FromSeq(<<"NOUN", "NOUN", "NOUN", "NOUN", "VERB">>)],
     [gov |-> FromSeq(<<0, 0, 0, 1, 0>>),
      dep |-> FromSeq(<<Root, Plain, Marked, Plain, Marked>>),
      pos |-> FromSeq(<<"VERB", "NOUN", "NOUN", "NOUN", "NOUN">>)]}

DocSize(d) == Cardinality(DOMAIN d.gov)

Init ==
    /\ \/ /\ n \in 0 .. MaxLen
          /\ \E d \in ParsedDocs(n) :
               /\ gov = d.gov
               /\ dep = d.dep
               /\ pos = d.pos
       \/ \E d \in LongDocs :
               /\ n = DocSize(d)
               /\ gov = d.gov
               /\ dep = d.dep
               /\ pos = d.pos
    /\ dep0 = dep
    /\ ents = <<>>
    /\ user_data = NoUserData
    /\ pc = "mark"
    /\ CallIdle
    /\ window = NoWindow
    /\ suffix = ""
    /\ phrase = NoPhrase

Next ==
    \/ HeadMarker
    \/ RecoverSkip
    \/ RecoverEnter
    \/ AscentStep
    \/ AscentClose
    \/ RecoverExit
    \/ EntityConflictResolver
    \/ LabelHead
    \/ Publish

Spec == Init /\ [][Next]_vars


(***************************************************************************)
(* The readers of doc.user_data["bunsetu_heads"].                          *)
(***************************************************************************)
RECURSIVE WithinSpan(_, _, _)
\* [i for i in heads if span.start <= i < span.end]
WithinSpan(s, start, end) ==
    IF s = <<>> THEN <<>>
    ELSE (IF start <= Head(s) /\ Head(s) < end THEN <<Head(s)>> ELSE <<>>)
             \o WithinSpan(Tail(s), start, end)

\* lines 40-43: bunsetu_head_list(span); iterating a value that is not a
\* tuple raises TypeError
BunsetuHeadList(value, start, end) ==
    IF value.kind = "tuple"
    THEN [status |-> "ok",
          items |-> [k \in DOMAIN WithinSpan(value.items, start, end) |->
                        WithinSpan(value.items, start, end)[k] - start]]
    ELSE [status |-> "TypeError", items |-> <<>>]

\* lines 46-49: bunsetu_head_tokens(span), as the indices t.i of the tokens
BunsetuHeadTokens(value, start, end) ==
    IF value.kind = "tuple"
    THEN [status |-> "ok", items |-> WithinSpan(value.items, start, end)]
    ELSE [status |-> "TypeError", items |-> <<>>]

(***************************************************************************)
(* Properties of BunsetuRecognizer.__call__ (specification Spec).          *)
(***************************************************************************)
AfterEntityPass == pc \in {"label", "done"}

InSpan(e, t) == e.start <= t /\ t < e.end

\* C1: after the entity pass, in every entity span exactly one token is a
\* head, and that token is the root of the span.
C1_EntityRootIsOnlyHead ==
    AfterEntityPass =>
        \A e \in SeqRange(ents) :
            /\ heads[EntRoot(e)]
            /\ \A t \in Tokens : InSpan(e, t) /\ t # EntRoot(e) => ~heads[t]

\* C2: the value published as doc.user_data["bunsetu_heads"] is the
\* ascending tuple of the indices whose heads flag is true.
C2_PublishedHeads ==
    pc = "done" =>
        /\ user_data.bunsetu_heads = TupleValue(HeadTuple(heads))
        /\ BunsetuHeadList(user_data.bunsetu_heads, 0, n)
              = [status |-> "ok", items |-> HeadTuple(heads)]

\* C3: the positions at which "B" is written are strictly increasing from
\* one head to the next, so no position is written twice.
C3_BeginsStrictlyIncreasing ==
    WellFormed(gov, n) =>
        \A j, k \in DOMAIN begins : j < k => begins[j] < begins[k]

\* C3 as amended: the cursor computed after a head lies strictly after that
\* head, so every "B" but the first is written strictly after the index of
\* the head processed just before it.
C3_CursorPassesHead ==
    (pc \in {"label", "done"} /\ hi > 1) => next_begin > bunsetu_heads[hi - 1]

\* C3 witness: two heads in a row had "B" written at the same position
C3_Witness ==
    /\ pc = "done"
    /\ WellFormed(gov, n)
    /\ \E j \in DOMAIN begins : j > 1 /\ begins[j] = begins[j - 1]

\* C5: in the final head set every token labelled ROOT is a head, whatever
\* the entities are.
C5_RootIsHead ==
    AfterEntityPass => \A r \in Tokens : IsRootLabel(dep[r]) => heads[r]

\* the second documented scenario: governors [1,1,3,1,1], token 1 labelled
\* ROOT, token 2 carrying the suffix, no entities
Scenario2 ==
    /\ n = Len(<<1, 1, 3, 1, 1>>)
    /\ gov = FromSeq(<<1, 1, 3, 1, 1>>)
    /\ dep0 = FromSeq(<<Plain, Root, Marked, Plain, Plain>>)
    /\ ents = <<>>

\* C6: the recovery marks only governors before the recovered token, so
\* the second scenario ends with the heads (1, 2).
C6_ScenarioHeads ==
    /\ (Scenario2 /\ pc = "done") => HeadTuple(heads) = <<1, 2>>
    /\ pc \in {"recover", "ascent", "ents"} =>
          \A t \in Tokens :
              heads[t] /\ ~runs[1][t] => \E s \in Tokens : runs[1][s] /\ t < s

\* C6 as amended: an iteration of the ascent marks only a governor before
\* its token, but on leaving the loop the governor of the last token is
\* marked wherever it lies: the second scenario ends with the heads
\* (1, 2, 3), token 3 being the governor of token 2.
C6_ScenarioHeadsClosed ==
    /\ [](Scenario2 /\ pc = "done" => HeadTuple(heads) = <<1, 2, 3>>)
    /\ [][pc = "ascent" /\ pc' = "ascent" =>
            \A t \in Tokens : heads'[t] # heads[t] => t < cur]_vars

C6_Witness == Scenario2 /\ pc = "done"

\* the governor chain of t is covered: a governor before t is a head, or it
\* is punctuation and its own chain is covered
RECURSIVE Covered(_)
Covered(t) ==
    gov[t] < t =>
        \/ heads[gov[t]]
        \/ pos[gov[t]] = "PUNCT" /\ Covered(gov[t])

\* C9: after the recovery pass no head is an orphan.
C9_NoOrphanHeads ==
    pc = "ents" /\ WellFormed(gov, n) =>
        \A t \in Tokens : heads[t] => Covered(t)

\* C9 as amended: after the recovery pass no token marked by the marking
\* pass is an orphan; a head marked on leaving an ascent can be one.
C9_NoOrphanMarkedHeads ==
    pc = "ents" /\ WellFormed(gov, n) =>
        \A t \in Tokens : runs[1][t] => Covered(t)

\* C9 witness: a marked token whose governor is punctuation that was passed
\* over, covered through the governor of the punctuation
C9_Witness ==
    /\ pc = "ents"
    /\ WellFormed(gov, n)
    /\ \E t \in Tokens :
          /\ runs[1][t]
          /\ gov[t] < t
          /\ ~heads[gov[t]]
          /\ gov[gov[t]] < gov[t]


(***************************************************************************)
(* The recovery pass on arbitrary in-range governors, cycles included      *)
(* (specification SpecRecovery).  The call runs to completion on one       *)
(* thread, hence the weak fairness.                                        *)
(***************************************************************************)
AnyDocs(len) ==
    {d \in [gov : [0 .. (len - 1) -> 0 .. (len - 1)],
            dep : [0 .. (len - 1) -> {Root, Plain, Marked}],
            pos : [0 .. (len - 1) -> {"NOUN", "PUNCT"}]] :
        \A t \in 0 .. (len - 1) : d.dep[t] \in ParsedLabels(d.gov, t)}

InitRecovery ==
    /\ n \in 0 .. MaxLen
    /\ \E d \in AnyDocs(n) :
         /\ gov = d.gov
         /\ dep = d.dep
         /\ pos = d.pos
    /\ dep0 = dep
    /\ ents = <<>>
    /\ user_data = NoUserData
    /\ pc = "mark"
    /\ CallIdle
    /\ window = NoWindow
    /\ suffix = ""
    /\ phrase = NoPhrase

NextRecovery ==
    \/ HeadMarker
    \/ RecoverSkip
    \/ RecoverEnter
    \/ AscentStep
    \/ AscentClose
    \/ RecoverExit

SpecRecovery ==
    InitRecovery /\ [][NextRecovery]_vars /\ WF_vars(NextRecovery)

\* C8: the recovery pass terminates on every in-range governor assignment,
\* cycles included: an ascent performs fewer than n iterations, the cursor
\* strictly decreases at each one, and the pass finishes.
C8_RecoveryTerminates ==
    /\ [](n = 0 \/ asteps < n)
    /\ [][pc = "ascent" /\ pc' = "ascent" => cur' < cur]_vars
    /\ <>(pc = "ents")

\* C8 witness: the pass has finished on governors that form a cycle, after
\* an ascent of at least one iteration
C8_Witness ==
    /\ pc = "ents"
    /\ ~WellFormed(gov, n)
    /\ asteps >= 1


(***************************************************************************)
(* The marking pass run again on the document it has rewritten             *)
(* (specification SpecMark).                                               *)
(***************************************************************************)
MaxRuns == 2
MaxSuffixes == 2

MarkLabels == {Label(b, k) : b \in {"ROOT", "nmod"}, k \in 0 .. MaxSuffixes}

InitMark ==
    /\ n \in 0 .. MaxLen
    /\ gov = [t \in 0 .. (n - 1) |-> t]
    /\ dep \in [0 .. (n - 1) -> MarkLabels]
    /\ pos = [t \in 0 .. (n - 1) |-> "NOUN"]
    /\ dep0 = dep
    /\ ents = <<>>
    /\ user_data = NoUserData
    /\ pc = "mark"
    /\ CallIdle
    /\ window = NoWindow
    /\ suffix = ""
    /\ phrase = NoPhrase

\* lines 108-109: the recognizer is called again on the same document
MarkAgain ==
    /\ pc = "recover"
    /\ Len(runs) < MaxRuns
    /\ pc' = "mark"
    /\ UNCHANGED <<n, gov, dep, pos, ents, user_data, heads, i, cur,
                   bunsetu_heads, hi, bunsetu_bi, next_begin, dep0, runs,
                   asteps, begins, window, suffix, phrase>>

NextMark ==
    \/ HeadMarker
    \/ MarkAgain

SpecMark == InitMark /\ [][NextMark]_vars

\* C7: a second run of the marking pass, on the labels the first run has
\* stripped, produces the same heads as the first run.
C7_SecondRunSameHeads ==
    \A k \in DOMAIN runs : runs[k] = runs[1]

\* C7 as amended: the second run marks the tokens the first run marked
\* except those whose label was a base other than ROOT followed by exactly
\* one suffix: the first run consumed their suffix.
C7_SecondRunLosesStripped ==
    Len(runs) >= 2 =>
        \A t \in Tokens :
            runs[2][t] <=>
                (runs[1][t] /\ ~(dep0[t].suf = 1 /\ dep0[t].base # "ROOT"))

\* C7 witness: two runs, and a token marked by the first one only
C7_Witness ==
    /\ Len(runs) >= 2
    /\ \E t \in Tokens : runs[1][t] /\ ~runs[2][t]

(***************************************************************************)
(* append_bunsetu_head_dep_suffix (specification SpecAnnotate).            *)
(***************************************************************************)
\* token.dep_.lower() == "root"
IsRootIgnoringCase(l) == l.base \in {"ROOT", "Root", "root"} /\ l.suf = 0

\* token.dep_ += suffix, for the suffixes the model passes
AddSuffix(l, sfx) ==
    IF sfx = "_bunsetu" THEN [l EXCEPT !.suf = l.suf + 1] ELSE l

\* token.head.i < tokens[0].i or tokens[-1].i < token.head.i
GovernorOutside(g, w, t) == g[t] < w.start \/ w.end - 1 < g[t]

RECURSIVE ScanWindowNoRootTest(_, _, _, _, _)
\* faulty variant: the loop does not stop at the root
ScanWindowNoRootTest(d, g, w, sfx, t) ==
    IF t >= w.end THEN d
    ELSE IF GovernorOutside(g, w, t)
         THEN [d EXCEPT ![t] = AddSuffix(d[t], sfx)]
    ELSE ScanWindowNoRootTest(d, g, w, sfx, t + 1)

RECURSIVE ScanWindow(_, _, _, _, _)
\* lines 179-184: the labels after the loop over tokens, from token t on
ScanWindow(d, g, w, sfx, t) ==
    IF t >= w.end THEN d
    ELSE IF IsRootIgnoringCase(d[t]) THEN d
    ELSE IF GovernorOutside(g, w, t)
         THEN [d EXCEPT ![t] = AddSuffix(d[t], sfx)]
    ELSE ScanWindow(d, g, w, sfx, t + 1)

\* lines 176-184: the labels after the call
AppendBunsetuHeadDepSuffix(d, g, w, sfx) ==
    IF sfx = "" THEN d ELSE ScanWindow(d, g, w, sfx, w.start)

AnnotateLabels(g, t) ==
    IF g[t] = t THEN {Root, Label("root", 0)} ELSE {Plain, Marked}

InitAnnotate ==
    /\ n \in 0 .. MaxLen
    /\ gov \in {g \in [0 .. (n - 1) -> 0 .. (n - 1)] : WellFormed(g, n)}
    /\ dep \in {d \in [0 .. (n - 1) -> {Root, Label("root", 0), Plain, Marked}] :
                  \A t \in 0 .. (n - 1) : d[t] \in AnnotateLabels(gov, t)}
    /\ pos = [t \in 0 .. (n - 1) |-> "NOUN"]
    /\ dep0 = dep
    /\ ents = <<>>
    /\ user_data = NoUserData
    /\ pc = "annotate"
    /\ CallIdle
    /\ window \in {w \in [start : 0 .. n, end : 0 .. n] : w.start <= w.end}
    /\ suffix \in {"", "_bunsetu"}
    /\ phrase = NoPhrase

\* lines 176-184
Annotate ==
    /\ pc = "annotate"
    /\ dep' = AppendBunsetuHeadDepSuffix(dep, gov, window, suffix)
    /\ pc' = "annotated"
    /\ UNCHANGED <<n, gov, pos, ents, user_data, heads, i, cur,
                   bunsetu_heads, hi, bunsetu_bi, next_begin, dep0, runs,
                   asteps, begins, window, suffix, phrase>>

NextAnnotate == Annotate

SpecAnnotate == InitAnnotate /\ [][NextAnnotate]_vars

Changed == {t \in Tokens : dep[t] # dep0[t]}

\* C10: no label changes when the window contains the token labelled ROOT,
\* wherever it stands; at most one label changes; none when the suffix is
\* empty.
C10_RootWindowUnchanged ==
    pc = "annotated" =>
        /\ (\E t \in Tokens : InSpan(window, t) /\ IsRootLabel(dep0[t]))
              => Changed = {}
        /\ Cardinality(Changed) <= 1
        /\ suffix = "" => Changed = {}

\* C10 as amended: no label changes when the window contains a token
\* labelled ROOT and no token before it in the window has its governor
\* outside the window; at most one label changes; none when the suffix is
\* empty.
C10_LeadingRootUnchanged ==
    pc = "annotated" =>
        /\ (\E t \in Tokens :
               /\ InSpan(window, t)
               /\ IsRootLabel(dep0[t])
               /\ \A u \in Tokens :
                     InSpan(window, u) /\ u < t => ~GovernorOutside(gov, window, u))
              => Changed = {}
        /\ Cardinality(Changed) <= 1
        /\ suffix = "" => Changed = {}

\* C10 witness: the window holds the ROOT token, followed by a token whose
\* governor is outside, and the call was made with the reserved suffix
C10_Witness ==
    /\ pc = "annotated"
    /\ suffix = "_bunsetu"
    /\ \E t, u \in Tokens :
          /\ InSpan(window, t) /\ InSpan(window, u) /\ t < u
          /\ IsRootLabel(dep0[t])
          /\ GovernorOutside(gov, window, u)
          /\ \A v \in Tokens : InSpan(window, v) /\ v < t
                => ~GovernorOutside(gov, window, v)


(***************************************************************************)
(* The readers of doc.user_data and bunsetu_phrase_span (specification     *)
(* SpecPhrase).  The document is one that has been parsed and labelled;    *)
(* doc.user_data["bunsetu_heads"] holds a tuple of ascending indices, or   *)
(* the function object that line 170 stores.                               *)
(***************************************************************************)
\* PHRASE_RELATIONS (line 22)
PHRASE_RELATIONS == {"compound", "nummod", "nmod"}

\* t.dep_ in phrase_relations
InRelations(l, rels) == l.suf = 0 /\ l.base \in rels

\* POS_PHRASE_MAP.get(pos, None) (lines 24-37, 94)
PosPhraseMap(p) ==
    IF p \in {"NOUN", "NUM", "PRON", "PROPN"} THEN "NP"
    ELSE IF p = "VERB" THEN "VP"
    ELSE IF p = "ADJ" THEN "ADJP"
    ELSE IF p = "ADV" THEN "ADVP"
    ELSE IF p = "CCONJ" THEN "CCONJP"
    ELSE "None"

RECURSIVE TraverseThroughHeads(_, _, _)
\* faulty variant: the traversal descends into children that are heads
TraverseThroughHeads(token, hl, rels) ==
    {token} \cup
    UNION {TraverseThroughHeads(c, hl, rels) :
              c \in {c \in SeqRange(Children(token)) :
                        InRelations(dep[c], rels)}}

RECURSIVE Traverse(_, _, _)
\* lines 81-86: the indices _traverse(token, result) appends to result
Traverse(token, hl, rels) ==
    {token} \cup
    UNION {Traverse(c, hl, rels) :
              c \in {c \in SeqRange(Children(token)) :
                        c \notin hl /\ InRelations(dep[c], rels)}}

\* lines 80-95: bunsetu_phrase_span(doc[h], rels)
BunsetuPhraseSpan(h, rels) ==
    LET ht == BunsetuHeadTokens(user_data.bunsetu_heads, 0, n)
        phrase_tokens == Traverse(h, SeqRange(ht.items), rels)
    IN  IF ht.status # "ok"
        THEN [status |-> ht.status, head |-> h, relations |-> rels,
              tokens |-> {}, begin |-> 0, end |-> 0, label |-> "None"]
        ELSE [status |-> "ok", head |-> h, relations |-> rels,
              tokens |-> phrase_tokens,
              begin |-> SetMin(phrase_tokens),
              end |-> SetMax(phrase_tokens) + 1,
              label |-> PosPhraseMap(pos[h])]

PhraseLabels(g, t) ==
    IF g[t] = t THEN {Root} ELSE {Label("compound", 0), Label("case", 0)}

RelationSets == {PHRASE_RELATIONS, {"case"}, {}}

InitPhrase ==
    /\ n \in 0 .. MaxLen
    /\ gov \in {g \in [0 .. (n - 1) -> 0 .. (n - 1)] : WellFormed(g, n)}
    /\ dep \in {d \in [0 .. (n - 1) ->
                         {Root, Label("compound", 0), Label("case", 0)}] :
                  \A t \in 0 .. (n - 1) : d[t] \in PhraseLabels(gov, t)}
    /\ pos = [t \in 0 .. (n - 1) |-> "NOUN"]
    /\ dep0 = dep
    /\ ents = <<>>
    /\ user_data \in
          {[bunsetu_heads |-> v, bunsetu_bi_labels |-> <<>>] :
              v \in {TupleValue(Ascending(S, 0)) : S \in SUBSET (0 .. (n - 1))}
                    \cup {FunctionValue("bunsetu_head_list")}}
    /\ pc = "query"
    /\ CallIdle
    /\ window = NoWindow
    /\ suffix = ""
    /\ phrase = NoPhrase

\* lines 80-95
PhraseSpan ==
    /\ pc = "query"
    /\ \E h \in Tokens, rels \in RelationSets :
          phrase' = BunsetuPhraseSpan(h, rels)
    /\ pc' = "answered"
    /\ UNCHANGED <<n, gov, dep, pos, ents, user_data, heads, i, cur,
                   bunsetu_heads, hi, bunsetu_bi, next_begin, dep0, runs,
                   asteps, begins, window, suffix>>

NextPhrase == PhraseSpan

SpecPhrase == InitPhrase /\ [][NextPhrase]_vars

PublishedHeads == SeqRange(user_data.bunsetu_heads.items)

=============================================================================
